---- MODULE Spec2Model ----
(***************************************************************************)
(* A model of kamipad-server/src/util/cache.rs: the TTL cache Cache<K, V>  *)
(* (CacheStore: real_ttl, next_ttl, map) and the registry CacheMap that    *)
(* hands out one Cache per (K, V) type pair.                               *)
(*                                                                         *)
(* Spec     a standalone cache (Cache::new()) driven by save, get,         *)
(*          get_and_renew and purge while the clock advances.              *)
(* SpecReg  threads calling CacheMap::get under the registry mutex and     *)
(*          using the handles they receive.                                *)
(* SpecConc threads saving through clones of one cache, step by step.     *)
(* SpecLog  the request log: the logger saves, log_by_req looks up.        *)
(* SpecArc  a registry, the Arc<V> values of its caches and its teardown.  *)
(* SpecLive, SpecVal  clones of one cache and the values they hand out.    *)
(* SpecLock the mutexes of the registry and of the stores, with fairness.  *)
(* SpecDb   kamipad-data: open() and the lock file of a database.          *)
(***************************************************************************)
EXTENDS Integers, Sequences, FiniteSets, TLC

\* ------------------------------------------------------------------ bounds
MaxTime == 2
MaxTTL == 2
MaxSkew == 1
MaxQueue == 2
MaxBoxes == 5
MaxDbs == 3
MaxObjs == 3
MaxPush == 1

\* the keys and values of the tests of cache.rs
Keys == {"a", "b"}
Vals == {"A", "B"}
Durations == {0, MaxTTL}
Threads == {"t1", "t2"}
\* the key and value types of test_cache_map, and the pairs it asks for
Types == {"str", "u16", "u32", "RequestId", "LogEntries"}
Pairs == {<<"str", "u16">>, <<"str", "u32">>, <<"u32", "str">>}
\* the keys, values and TTLs saved through registry handles
RegKeys == {"a"}
RegVals == {"A"}
RegDurations == {MaxTTL}
\* the cache of the request log: Cache<RequestId, Vec<LogEntry>>
LogPair == <<"RequestId", "LogEntries">>
\* vec![]
EmptyVec == "[]"
\* the thread of the request logger and the thread that serves log_by_req
Logger == "t1"
Handler == "t2"

\* Option::None of map.get(key), and of real_ttl.get(key)
NoVal == "None"
NoTTL == -1

\* the addresses Arc::new can return, in the order it hands them out
ObjOrder == <<"o1", "o2", "o3", "o4">>

ObjIds == {ObjOrder[i] : i \in DOMAIN ObjOrder}

VARIABLES
    clock,      \* the reading of Instant::now()
    stores,     \* the allocated CacheStore objects (Arc<Mutex<CacheStore>>), by address
    last,       \* the call that returned last: its name, its key and its result
    lastSet,    \* per key: the call that set its deadline last (save or get_and_renew)
    sweptLate,  \* per key: a later call swept at a time after that deadline
    renewedTo,  \* per key: the deadline a get_and_renew moved it forward to
    init,       \* CacheMapInner.init
    data,       \* CacheMapInner.data: TypeId -> address of the boxed Cache
    boxes,      \* the boxed Cache objects Box::into_raw leaked, by address
    regLock,    \* the thread holding the registry mutex CacheMap.inner
    pc,         \* per thread: its position in CacheMap::get
    req,        \* per thread: the (K, V) of its CacheMap::get::<K, V>()
    item,       \* per thread: the local `item` of CacheMap::get
    entryPtr,   \* per thread: the local `entry_ptr` of CacheMap::get
    handle,     \* per thread: the Cache<K, V> its last CacheMap::get returned
    dbDir,      \* the database directory main_path exists
    dbLockFile, \* the lock file main_path/db.lock exists
    dbs,        \* per slot: an open() call in progress or the Database it returned
    resp,       \* the last response of log_by_req, and what the cache held then
    pend,       \* per thread: the save it is in, from reading the clock to its return
    storeLock,  \* per store: the thread holding the mutex of that CacheStore
    objs,       \* the values behind Arc<V>: payload, strong count, runs of V's drop
    held,       \* per thread: the Arc<V> it holds, and the key it got it for
    storeArc,   \* per store: the strong count of Arc<Mutex<CacheStore>>, runs of its drop
    freed,      \* per boxed Cache: the times Box::from_raw took it back and dropped it
    cacheMapLive \* the CacheMap has not been dropped

cacheVars == <<clock, stores, last, lastSet, sweptLate, renewedTo>>
regVars == <<init, data, boxes, regLock, pc, req, item, entryPtr, handle>>
dbVars == <<dbDir, dbLockFile, dbs>>
logVars == <<resp>>
concVars == <<pend, storeLock>>
arcVars == <<objs, held, storeArc, freed, cacheMapLive>>
otherVars == <<dbVars, logVars, concVars, arcVars>>
vars == <<clock, stores, last, lastSet, sweptLate, renewedTo,
          init, data, boxes, regLock, pc, req, item, entryPtr, handle,
          dbDir, dbLockFile, dbs, resp, pend, storeLock,
          objs, held, storeArc, freed, cacheMapLive>>

\* ------------------------------------------------- CacheKeyEntry and its Ord
\* impl Ord for CacheKeyEntry: other.expire.cmp(&other.expire). It compares
\* other's expiration with itself, so every pair of entries compares Equal.
CmpInstant(a, b) ==
    IF a < b THEN "Less" ELSE IF a = b THEN "Equal" ELSE "Greater"

EntryCmp(self, other) ==
    CmpInstant(other.expire, other.expire)

\* PartialOrd::le through partial_cmp = Some(self.cmp(other))
EntryLe(a, b) ==
    EntryCmp(a, b) \in {"Less", "Equal"}

\* ------------------------------------------------------------- BinaryHeap
\* The heap is the Vec behind std's BinaryHeap; position p of the Vec is
\* index p + 1 of the sequence.
RECURSIVE SiftUp(_, _, _, _)
SiftUp(h, start, pos, elt) ==
    IF pos > start
    THEN LET parent == (pos - 1) \div 2 IN
         IF EntryLe(elt, h[parent + 1])
         THEN [h EXCEPT ![pos + 1] = elt]
         ELSE SiftUp([h EXCEPT ![pos + 1] = h[parent + 1]], start, parent, elt)
    ELSE [h EXCEPT ![pos + 1] = elt]

RECURSIVE SiftDownHole(_, _, _)
SiftDownHole(h, hole, end) ==
    LET child == 2 * hole + 1 IN
    IF end >= 2 /\ child <= end - 2
    THEN LET c == IF EntryLe(h[child + 1], h[child + 2]) THEN child + 1 ELSE child
         IN SiftDownHole([h EXCEPT ![hole + 1] = h[c + 1]], c, end)
    ELSE IF child = end - 1
         THEN [heap |-> [h EXCEPT ![hole + 1] = h[child + 1]], pos |-> child]
         ELSE [heap |-> h, pos |-> hole]

SiftDownToBottom(h, pos) ==
    LET elt == h[pos + 1]
        d == SiftDownHole(h, pos, Len(h))
    IN SiftUp(d.heap, pos, d.pos, elt)

HeapPush(h, e) ==
    SiftUp(Append(h, e), 0, Len(h), e)

HeapPeek(h) ==
    h[1]

\* pop: take the last element of the Vec, swap it with the root, sift it down
HeapPop(h) ==
    LET tail == h[Len(h)]
        rest == SubSeq(h, 1, Len(h) - 1)
    IN IF rest = <<>>
       THEN [item |-> tail, heap |-> rest]
       ELSE [item |-> rest[1], heap |-> SiftDownToBottom([rest EXCEPT ![1] = tail], 0)]

\* ------------------------------------------------------------- CacheStore
EmptyStore ==
    [real_ttl |-> [k \in Keys |-> NoTTL],
     next_ttl |-> <<>>,
     map |-> [k \in Keys |-> NoVal]]

\* a sweep that takes every queue entry for expired
ExpiredAlways(entry, now) ==
    TRUE

\* a sweep that takes the entries still to expire for the expired ones
ExpiredInverted(entry, now) ==
    entry.expire >= now

\* do_purge: `let expired = entry.expire <= now`
Expired(entry, now) ==
    entry.expire <= now

\* a sweep that removes the key of every entry it pops
GenuineAlways(st, entry) ==
    st.real_ttl[entry.key] # NoTTL

\* do_purge: the popped entry removes its key only when real_ttl has the key
\* and `actual_ttl == &entry.expire`
Genuine(st, entry) ==
    /\ st.real_ttl[entry.key] # NoTTL
    /\ st.real_ttl[entry.key] = entry.expire

\* an iteration that removes the value of an expired key and keeps its deadline
PurgePopKeepTTL(st) ==
    LET p == HeapPop(st.next_ttl)
        st1 == [st EXCEPT !.next_ttl = p.heap]
    IN [entry |-> p.item,
        store |-> IF Genuine(st1, p.item)
                  THEN [st1 EXCEPT !.map[p.item.key] = NoVal]
                  ELSE st1]

\* an iteration that puts a stale entry back with the deadline of its key
PurgePopRequeue(st) ==
    LET p == HeapPop(st.next_ttl)
        st1 == [st EXCEPT !.next_ttl = p.heap]
    IN [entry |-> p.item,
        store |-> IF Genuine(st1, p.item)
                  THEN [st1 EXCEPT !.real_ttl[p.item.key] = NoTTL,
                                   !.map[p.item.key] = NoVal]
                  ELSE IF st1.real_ttl[p.item.key] # NoTTL
                       THEN [st1 EXCEPT !.next_ttl =
                                HeapPush(p.heap, [expire |-> st1.real_ttl[p.item.key], key |-> p.item.key])]
                       ELSE st1]

\* one iteration of the loop of do_purge that pops
PurgePop(st) ==
    LET p == HeapPop(st.next_ttl)
        st1 == [st EXCEPT !.next_ttl = p.heap]
    IN [entry |-> p.item,
        store |-> IF Genuine(st1, p.item)
                  THEN [st1 EXCEPT !.real_ttl[p.item.key] = NoTTL,
                                   !.map[p.item.key] = NoVal]
                  ELSE st1]

PopRecord(st, r) ==
    [key |-> r.entry.key,
     expire |-> r.entry.expire,
     ttlBefore |-> st.real_ttl[r.entry.key],
     ttlAfter |-> r.store.real_ttl[r.entry.key],
     valBefore |-> st.map[r.entry.key],
     valAfter |-> r.store.map[r.entry.key],
     minBefore |-> \A i \in 1..Len(st.next_ttl) : r.entry.expire <= st.next_ttl[i].expire]

RECURSIVE DoPurge(_, _, _)
DoPurge(st, now, log) ==
    IF st.next_ttl = <<>>
    THEN [store |-> st, log |-> log]
    ELSE IF Expired(HeapPeek(st.next_ttl), now)
         THEN LET r == PurgePop(st)
              IN DoPurge(r.store, now, Append(log, PopRecord(st, r)))
         ELSE [store |-> st, log |-> log]

\* a save that sweeps after it has inserted
SaveStoreSweepLast(st, key, val, ttl, now) ==
    LET s1 == [st EXCEPT !.next_ttl = HeapPush(st.next_ttl, [expire |-> ttl, key |-> key])]
        s2 == [s1 EXCEPT !.real_ttl[key] = ttl]
        s3 == [s2 EXCEPT !.map[key] = val]
        p == DoPurge(s3, now, <<>>)
    IN [store |-> p.store, log |-> p.log, ret |-> val]

\* save with ttl = the deadline computed before the lock was taken and
\* now = the clock do_purge reads once the lock is held
SaveStore(st, key, val, ttl, now) ==
    LET p == DoPurge(st, now, <<>>)
        s1 == [p.store EXCEPT !.next_ttl = HeapPush(p.store.next_ttl, [expire |-> ttl, key |-> key])]
        s2 == [s1 EXCEPT !.real_ttl[key] = ttl]
        s3 == [s2 EXCEPT !.map[key] = val]
    IN [store |-> s3, log |-> p.log, ret |-> val]

\* a get that sweeps before it looks the key up
GetStoreSweeping(st, key) ==
    LET p == DoPurge(st, clock, <<>>)
    IN [store |-> p.store, ret |-> p.store.map[key]]

\* a clone that is a handle to another value, a copy of the payload
ArcCloneCopy(v) ==
    IF v \in ObjIds
    THEN LET i == CHOOSE j \in DOMAIN ObjOrder : ObjOrder[j] = v
         IN ObjOrder[(i % Len(ObjOrder)) + 1]
    ELSE v

\* `Some(val.clone())` of an Arc<V>: another handle to the same value
ArcClone(v) ==
    v

GetStore(st, key) ==
    [store |-> st, ret |-> ArcClone(st.map[key])]

\* a renewal that returns the value and leaves the deadline as it was
GetAndRenewKeepTTL(st, key, ttl) ==
    [store |-> st, ret |-> st.map[key]]

\* a renewal that records the deadline whether or not the key is there
GetAndRenewInsertTTL(st, key, ttl) ==
    [store |-> [st EXCEPT !.real_ttl[key] = ttl], ret |-> st.map[key]]

\* a renewal that also queues the new deadline, after a sweep
GetAndRenewQueueing(st, key, ttl) ==
    IF st.map[key] # NoVal
    THEN LET p == DoPurge(st, clock, <<>>)
         IN [store |-> [p.store EXCEPT !.real_ttl[key] = ttl,
                                       !.next_ttl = HeapPush(p.store.next_ttl, [expire |-> ttl, key |-> key])],
             ret |-> st.map[key]]
    ELSE [store |-> st, ret |-> NoVal]

GetAndRenewStore(st, key, ttl) ==
    IF st.map[key] # NoVal
    THEN [store |-> [st EXCEPT !.real_ttl[key] = ttl], ret |-> st.map[key]]
    ELSE [store |-> st, ret |-> NoVal]

PurgeStore(st, now) ==
    DoPurge(st, now, <<>>)

\* ------------------------------------------------------- standalone cache
\* The cache of Spec is the one Cache::new() builds: store 1.
Standalone == 1

\* ---------------------------------------------------------------- CacheMap
\* an identity that forgets which type is the key and which the value
TypeIdUnordered(K, V) ==
    {K, V}

\* an identity taken from the key type alone
TypeIdKeyOnly(K, V) ==
    <<K, K>>

\* TypeId::of::<(K, V)>(): the identity of the ordered pair of types
TypeIdOf(K, V) ==
    <<K, V>>

TypeIds ==
    {TypeIdOf(K, V) : K \in Types, V \in Types}

\* `item` = None, and an address no box has
NullPtr == 0

NoThread == "none"

NoPair == <<"", "">>

NoHandle ==
    [store |-> 0, ty |-> NoPair]

\* Box::new(Default::default()): the empty HashMap<TypeId, *mut dyn Any>
EmptyData ==
    [id \in TypeIds |-> NullPtr]

\* (**inner.data.get()).get(&type_id)
DataGet(d, id) ==
    d[id]

\* an insert that is lost
DataInsertLost(d, id, ptr) ==
    d

\* (**inner.data.get()).insert(type_id, entry)
DataInsert(d, id, ptr) ==
    [d EXCEPT ![id] = ptr]

\* a lock that never waits
MutexFreeAlways(holder) ==
    TRUE

\* self.inner.lock() returns once no thread holds the mutex
MutexFree(holder) ==
    holder = NoThread

\* a guard whose drop leaves the mutex locked
GuardLeak(holder, t) ==
    holder

\* the MutexGuard of thread t goes out of scope: the mutex is unlocked
GuardDrop(holder, t) ==
    IF holder = t THEN NoThread ELSE holder

\* impl Clone for Cache: a new Cache value with the same Arc (the same store)
CloneCache(cache) ==
    [store |-> cache.store]

NoCall ==
    [op |-> "none", key |-> "", ret |-> NoVal, th |-> NoThread, log |-> <<>>]

\* what a sweep popped, as `last` keeps it: the entry and whether its key went
Popped(log) ==
    [i \in DOMAIN log |->
        [key |-> log[i].key, expire |-> log[i].expire,
         removed |-> log[i].valBefore # NoVal /\ log[i].valAfter = NoVal]]

NeverSet ==
    [kind |-> "none", val |-> NoVal, deadline |-> NoTTL, later |-> FALSE]

CacheInit ==
    /\ clock = 0
    /\ last = NoCall
    /\ lastSet = [k \in Keys |-> NeverSet]
    /\ sweptLate = [k \in Keys |-> FALSE]
    /\ renewedTo = [k \in Keys |-> NoTTL]

RegInit ==
    /\ init = FALSE
    /\ data = EmptyData
    /\ boxes = <<>>
    /\ regLock = NoThread
    /\ pc = [t \in Threads |-> "idle"]
    /\ req = [t \in Threads |-> NoPair]
    /\ item = [t \in Threads |-> NullPtr]
    /\ entryPtr = [t \in Threads |-> NullPtr]
    /\ handle = [t \in Threads |-> NoHandle]

\* ------------------------------------------------- kamipad-data: open()
\* the Database values the callers can hold at a time
DbSlots == 1..MaxDbs

\* the advisory lock an open file description holds on db.lock
Unlocked == "unlocked"

\* a slot with no open() call in progress and no Database
NoDb ==
    [state |-> "none", create |-> FALSE, read_only |-> FALSE, lock |-> Unlocked, result |-> "none"]

\* fs::OpenOptions::new().read(true).write(create).create(create).open(lock_path)
LockFileOpens(create, dir, file) ==
    dir /\ (file \/ create)

\* a shared lock that is refused whenever any lock is held
TryLockSharedAlone(d, s) ==
    \A u \in DbSlots \ {s} : d[u].lock = Unlocked

\* lock_file.try_lock_shared(): refused while another description holds the
\* exclusive lock
TryLockShared(d, s) ==
    \A u \in DbSlots \ {s} : d[u].lock # "exclusive"

\* an exclusive lock that is granted beside shared locks
TryLockExclusiveBesideShared(d, s) ==
    \A u \in DbSlots \ {s} : d[u].lock # "exclusive"

\* lock_file.try_lock_exclusive(): refused while another description holds
\* any lock
TryLockExclusive(d, s) ==
    \A u \in DbSlots \ {s} : d[u].lock = Unlocked

\* a file whose lock outlives its description
CloseLockFileKeepLock(lock) ==
    lock

\* dropping _lock_file closes the description, which releases its lock
CloseLockFile(lock) ==
    Unlocked

DbInit ==
    /\ dbDir = FALSE
    /\ dbLockFile = FALSE
    /\ dbs = [s \in DbSlots |-> NoDb]

\* no request answered yet
NoResp ==
    [req |-> "", body |-> EmptyVec, at |-> 0, stored |-> NoVal, ttl |-> NoTTL]

LogInit ==
    resp = NoResp

\* no save in progress
NoSave ==
    [key |-> "", val |-> NoVal, ttl |-> NoTTL]

\* the addresses a CacheStore can have
StoreIds == 1..MaxBoxes

ConcInit ==
    /\ pend = [t \in Threads |-> NoSave]
    /\ storeLock = [s \in StoreIds |-> NoThread]

\* ------------------------------------------------------ Arc<V> and drops
\* an address nothing was allocated at
NoObj ==
    [val |-> 0, strong |-> 0, drops |-> 0]

\* a thread that holds no Arc<V>
NoHeld ==
    [obj |-> NoVal, store |-> 0, key |-> "", fresh |-> FALSE, saw |-> 0]

Allocated(os) == {o \in ObjIds : os[o].strong > 0 \/ os[o].drops > 0}

\* Arc::new(val): the next address, with a strong count of one
NewObj(os) == ObjOrder[Cardinality(Allocated(os)) + 1]

\* the Arc<V> values a store's map holds
StoredValues(st) == {st.map[k] : k \in Keys} \ {NoVal}

\* drop of one Arc<V>: the count goes down, and V is dropped at zero
ReleaseValue(os, o) ==
    [os EXCEPT ![o].strong = @ - 1,
               ![o].drops = IF os[o].strong = 1 THEN @ + 1 ELSE @]

RECURSIVE ReleaseValues(_, _)
ReleaseValues(os, S) ==
    IF S = {}
    THEN os
    ELSE LET o == CHOOSE x \in S : TRUE
         IN ReleaseValues(ReleaseValue(os, o), S \ {o})

\* drop of one Cache: the count of its Arc<Mutex<CacheStore>> goes down, and
\* at zero the CacheStore is dropped, its map and the Arc<V> values with it
ReleaseCache(sa, sts, os, s) ==
    [storeArc |-> [sa EXCEPT ![s].strong = @ - 1,
                             ![s].drops = IF sa[s].strong = 1 THEN @ + 1 ELSE @],
     objs |-> IF sa[s].strong = 1 THEN ReleaseValues(os, StoredValues(sts[s])) ELSE os]

RECURSIVE FreeBoxes(_, _, _, _, _, _)
FreeBoxes(ptrs, bxs, fr, sa, sts, os) ==
    IF ptrs = {}
    THEN [freed |-> fr, storeArc |-> sa, objs |-> os]
    ELSE LET ptr == CHOOSE x \in ptrs : TRUE
             r == ReleaseCache(sa, sts, os, bxs[ptr].store)
         IN FreeBoxes(ptrs \ {ptr}, bxs, [fr EXCEPT ![ptr] = @ + 1], r.storeArc, sts, r.objs)

\* a drop that returns before it frees anything
DropInnerNothing(ini, d, bxs, fr, sa, sts, os) ==
    [freed |-> fr, storeArc |-> sa, objs |-> os]

\* impl Drop for CacheMapInner: nothing when !init, else Box::from_raw and
\* drop of every value of the HashMap, then of the HashMap
DropInner(ini, d, bxs, fr, sa, sts, os) ==
    IF ~ini
    THEN [freed |-> fr, storeArc |-> sa, objs |-> os]
    ELSE FreeBoxes({d[id] : id \in DOMAIN d} \ {NullPtr}, bxs, fr, sa, sts, os)

ArcInit ==
    /\ objs = [o \in ObjIds |-> NoObj]
    /\ held = [t \in Threads |-> NoHeld]
    /\ storeArc = <<>>
    /\ freed = <<>>
    /\ cacheMapLive = TRUE

OtherInit ==
    /\ DbInit
    /\ LogInit
    /\ ConcInit
    /\ ArcInit

\* Spec: no registry; the one store is that of the cache Cache::new() built
Init ==
    /\ CacheInit
    /\ stores = <<EmptyStore>>
    /\ RegInit
    /\ OtherInit

\* History of a key is kept while it says something: once the key is gone at
\* or after the deadline set for it, it is a key never saved again.
Forgotten(st, set, k, now) ==
    /\ st.map[k] = NoVal
    /\ set[k].deadline <= now

\* a sweep at time now, seen from a key whose deadline was set earlier
SweptAt(set, late, k, now) ==
    late[k] \/ now > set[k].deadline

Lapse(renewed, now) ==
    [k \in Keys |-> IF renewed[k] # NoTTL /\ now >= renewed[k] THEN NoTTL ELSE renewed[k]]

Tick ==
    /\ clock < MaxTime
    /\ clock' = clock + 1
    /\ renewedTo' = Lapse(renewedTo, clock + 1)
    /\ UNCHANGED <<stores, last, lastSet, sweptLate>>
    /\ UNCHANGED regVars
    /\ UNCHANGED otherVars

\* Cache::save. The deadline is computed from the clock read before the lock
\* is taken; do_purge reads the clock again once the lock is held, skew later.
Save(key, val, d, skew) ==
    LET ttl == clock + d
        now == clock + skew
        r == SaveStore(stores[Standalone], key, val, ttl, now)
    IN /\ now <= MaxTime
       /\ Len(r.store.next_ttl) <= MaxQueue
       /\ clock' = now
       /\ stores' = [stores EXCEPT ![Standalone] = r.store]
       /\ last' = [op |-> "save", key |-> key, ret |-> r.ret, th |-> NoThread, log |-> Popped(r.log)]
       /\ lastSet' = [k \in Keys |->
                        IF k = key
                        THEN [kind |-> "save", val |-> val, deadline |-> ttl, later |-> FALSE]
                        ELSE IF Forgotten(r.store, lastSet, k, now) THEN NeverSet
                        ELSE lastSet[k]]
       /\ sweptLate' = [k \in Keys |->
                        IF k = key \/ Forgotten(r.store, lastSet, k, now) \/ lastSet[k].kind = "none"
                        THEN FALSE
                        ELSE SweptAt(lastSet, sweptLate, k, now)]
       /\ renewedTo' = Lapse(renewedTo, now)
       /\ UNCHANGED regVars
       /\ UNCHANGED otherVars

\* Cache::get
Get(key) ==
    LET r == GetStore(stores[Standalone], key)
    IN /\ stores' = [stores EXCEPT ![Standalone] = r.store]
       /\ last' = [op |-> "get", key |-> key, ret |-> r.ret, th |-> NoThread, log |-> <<>>]
       /\ UNCHANGED <<clock, lastSet, sweptLate, renewedTo>>
       /\ UNCHANGED regVars
       /\ UNCHANGED otherVars

\* Cache::get_and_renew
GetAndRenew(key, d) ==
    LET ttl == clock + d
        old == stores[Standalone].real_ttl[key]
        r == GetAndRenewStore(stores[Standalone], key, ttl)
    IN /\ stores' = [stores EXCEPT ![Standalone] = r.store]
       /\ last' = [op |-> "get_and_renew", key |-> key, ret |-> r.ret, th |-> NoThread, log |-> <<>>]
       /\ IF r.ret # NoVal
          THEN /\ lastSet' = [lastSet EXCEPT ![key] =
                                [kind |-> "renew", val |-> r.ret, deadline |-> ttl,
                                 later |-> ttl > old]]
               /\ sweptLate' = [sweptLate EXCEPT ![key] = FALSE]
               /\ renewedTo' = [renewedTo EXCEPT ![key] = IF ttl > old /\ ttl > clock THEN ttl ELSE NoTTL]
          ELSE UNCHANGED <<lastSet, sweptLate, renewedTo>>
       /\ UNCHANGED clock
       /\ UNCHANGED regVars
       /\ UNCHANGED otherVars

\* Cache::purge
Purge ==
    LET r == PurgeStore(stores[Standalone], clock)
    IN /\ stores' = [stores EXCEPT ![Standalone] = r.store]
       /\ last' = [op |-> "purge", key |-> "", ret |-> NoVal, th |-> NoThread, log |-> Popped(r.log)]
       /\ lastSet' = [k \in Keys |->
                        IF Forgotten(r.store, lastSet, k, clock) THEN NeverSet ELSE lastSet[k]]
       /\ sweptLate' = [k \in Keys |->
                        IF Forgotten(r.store, lastSet, k, clock) \/ lastSet[k].kind = "none"
                        THEN FALSE
                        ELSE SweptAt(lastSet, sweptLate, k, clock)]
       /\ UNCHANGED <<clock, renewedTo>>
       /\ UNCHANGED regVars
       /\ UNCHANGED otherVars

Next ==
    \/ Tick
    \/ \E key \in Keys, val \in Vals, d \in Durations, skew \in 0..MaxSkew : Save(key, val, d, skew)
    \/ \E key \in Keys : Get(key)
    \/ \E key \in Keys, d \in Durations : GetAndRenew(key, d)
    \/ Purge

Spec == Init /\ [][Next]_vars

\* ------------------------------------------------------ CacheMap::get steps
\* line 60: `let mut inner = self.inner.lock().unwrap()`
RegLock(t, K, V) ==
    /\ pc[t] = "idle"
    /\ MutexFree(regLock)
    /\ regLock' = t
    /\ req' = [req EXCEPT ![t] = <<K, V>>]
    /\ pc' = [pc EXCEPT ![t] = "init"]
    /\ UNCHANGED <<init, data, boxes, item, entryPtr, handle>>
    /\ UNCHANGED cacheVars
    /\ UNCHANGED otherVars

\* lines 61-67: allocate the HashMap on the first call
RegAlloc(t) ==
    /\ pc[t] = "init"
    /\ IF ~init
       THEN /\ data' = EmptyData
            /\ init' = TRUE
       ELSE UNCHANGED <<data, init>>
    /\ pc' = [pc EXCEPT ![t] = "lookup"]
    /\ UNCHANGED <<boxes, regLock, req, item, entryPtr, handle>>
    /\ UNCHANGED cacheVars
    /\ UNCHANGED otherVars

\* lines 69-70: `let item = (**inner.data.get()).get(&type_id)`
RegLookup(t) ==
    /\ pc[t] = "lookup"
    /\ item' = [item EXCEPT ![t] = DataGet(data, TypeIdOf(req[t][1], req[t][2]))]
    /\ pc' = [pc EXCEPT ![t] = "entry"]
    /\ UNCHANGED <<init, data, boxes, regLock, req, entryPtr, handle>>
    /\ UNCHANGED cacheVars
    /\ UNCHANGED otherVars

\* lines 72-82: the entry found, or a new boxed Cache::default() inserted
RegEntry(t) ==
    /\ pc[t] = "entry"
    /\ IF item[t] # NullPtr
       THEN /\ entryPtr' = [entryPtr EXCEPT ![t] = item[t]]
            /\ UNCHANGED <<stores, boxes, data>>
       ELSE /\ Len(boxes) < MaxBoxes
            /\ stores' = Append(stores, EmptyStore)
            /\ boxes' = Append(boxes, [store |-> Len(stores) + 1, ty |-> req[t]])
            /\ data' = DataInsert(data, TypeIdOf(req[t][1], req[t][2]), Len(boxes) + 1)
            /\ entryPtr' = [entryPtr EXCEPT ![t] = Len(boxes) + 1]
    /\ pc' = [pc EXCEPT ![t] = "clone"]
    /\ UNCHANGED <<init, regLock, req, item, handle>>
    /\ UNCHANGED <<clock, last, lastSet, sweptLate, renewedTo>>
    /\ UNCHANGED otherVars

\* lines 84-88: cast entry_ptr to *const Cache<K, V>, clone it, drop the guard
RegReturn(t) ==
    /\ pc[t] = "clone"
    /\ handle' = [handle EXCEPT ![t] =
                    [store |-> CloneCache(boxes[entryPtr[t]]).store, ty |-> req[t]]]
    /\ regLock' = GuardDrop(regLock, t)
    /\ pc' = [pc EXCEPT ![t] = "idle"]
    /\ req' = [req EXCEPT ![t] = NoPair]
    /\ item' = [item EXCEPT ![t] = NullPtr]
    /\ entryPtr' = [entryPtr EXCEPT ![t] = NullPtr]
    /\ UNCHANGED <<init, data, boxes>>
    /\ UNCHANGED cacheVars
    /\ UNCHANGED otherVars

\* Cache::save through the handle of thread t
RegSave(t, key, val, d) ==
    LET s == handle[t].store
        r == SaveStore(stores[s], key, val, clock + d, clock)
    IN /\ pc[t] = "idle"
       /\ handle[t] # NoHandle
       /\ Len(r.store.next_ttl) <= MaxQueue
       /\ stores' = [stores EXCEPT ![s] = r.store]
       /\ last' = [op |-> "save", key |-> key, ret |-> r.ret, th |-> t, log |-> Popped(r.log)]
       /\ UNCHANGED <<clock, lastSet, sweptLate, renewedTo>>
       /\ UNCHANGED regVars
       /\ UNCHANGED otherVars

\* Cache::get through the handle of thread t
RegGet(t, key) ==
    LET s == handle[t].store
        r == GetStore(stores[s], key)
    IN /\ pc[t] = "idle"
       /\ handle[t] # NoHandle
       /\ stores' = [stores EXCEPT ![s] = r.store]
       /\ last' = [op |-> "get", key |-> key, ret |-> r.ret, th |-> t, log |-> <<>>]
       /\ UNCHANGED <<clock, lastSet, sweptLate, renewedTo>>
       /\ UNCHANGED regVars
       /\ UNCHANGED otherVars

\* SpecReg: a registry (CacheMap::new()) and no cache yet
InitReg ==
    /\ CacheInit
    /\ stores = <<>>
    /\ RegInit
    /\ OtherInit

NextReg ==
    \/ \E t \in Threads, p \in Pairs : RegLock(t, p[1], p[2])
    \/ \E t \in Threads : RegAlloc(t)
    \/ \E t \in Threads : RegLookup(t)
    \/ \E t \in Threads : RegEntry(t)
    \/ \E t \in Threads : RegReturn(t)
    \/ \E t \in Threads, key \in RegKeys, val \in RegVals, d \in RegDurations : RegSave(t, key, val, d)
    \/ \E t \in Threads, key \in RegKeys : RegGet(t, key)

SpecReg == InitReg /\ [][NextReg]_vars

\* ------------------------------------------- threads on clones of a cache
\* the key and the value each thread saves, one key per thread
KeyOf(t) == IF t = "t1" THEN "a" ELSE "b"

ValOf(t) == IF t = "t1" THEN "A" ELSE "B"

\* a TTL that does not elapse while the clock runs
LongTTL == MaxTime + 1

\* the thread that calls get and purge meanwhile
Observer == "t3"

\* what the cache holds when the threads are spawned: nothing, or an entry
\* saved at time 0 with a TTL of zero
Seeded ==
    {EmptyStore} \cup {SaveStore(EmptyStore, k, "B", 0, 0).store : k \in Keys}

\* SpecConc: every thread holds a clone of the standalone cache
InitConc ==
    /\ CacheInit
    /\ stores \in {<<s>> : s \in Seeded}
    /\ init = FALSE
    /\ data = EmptyData
    /\ boxes = <<>>
    /\ regLock = NoThread
    /\ pc = [t \in Threads |-> "idle"]
    /\ req = [t \in Threads |-> NoPair]
    /\ item = [t \in Threads |-> NullPtr]
    /\ entryPtr = [t \in Threads |-> NullPtr]
    /\ handle = [t \in Threads |-> [store |-> CloneCache([store |-> Standalone]).store, ty |-> NoPair]]
    /\ OtherInit

\* save, line 137-138: the clock is read and the deadline computed
SaveBegin(t) ==
    /\ pc[t] = "idle"
    /\ handle[t] # NoHandle
    /\ pend' = [pend EXCEPT ![t] = [key |-> KeyOf(t), val |-> ValOf(t), ttl |-> clock + LongTTL]]
    /\ pc' = [pc EXCEPT ![t] = "saving"]
    /\ UNCHANGED <<init, data, boxes, regLock, req, item, entryPtr, handle, storeLock>>
    /\ UNCHANGED <<cacheVars, dbVars, logVars, arcVars>>

\* save, line 140: `let mut store = self.store.lock().unwrap()`
SaveLock(t) ==
    /\ pc[t] = "saving"
    /\ MutexFree(storeLock[handle[t].store])
    /\ storeLock' = [storeLock EXCEPT ![handle[t].store] = t]
    /\ pc' = [pc EXCEPT ![t] = "locked"]
    /\ UNCHANGED <<init, data, boxes, regLock, req, item, entryPtr, handle, pend>>
    /\ UNCHANGED <<cacheVars, dbVars, logVars, arcVars>>

\* save, lines 141-160: sweep, insert, and the guard dropped on return
SaveCommit(t) ==
    LET s == handle[t].store
        r == SaveStore(stores[s], pend[t].key, pend[t].val, pend[t].ttl, clock)
    IN /\ pc[t] = "locked"
       /\ storeLock' = [storeLock EXCEPT ![s] = GuardDrop(storeLock[s], t)]
       /\ stores' = [stores EXCEPT ![s] = r.store]
       /\ last' = [op |-> "save", key |-> pend[t].key, ret |-> r.ret, th |-> t, log |-> Popped(r.log)]
       /\ pc' = [pc EXCEPT ![t] = "done"]
       /\ UNCHANGED <<clock, lastSet, sweptLate, renewedTo>>
       /\ UNCHANGED <<init, data, boxes, regLock, req, item, entryPtr, handle, pend>>
       /\ UNCHANGED <<dbVars, logVars, arcVars>>

\* get through another clone, once the lock is free
ConcGet(key) ==
    LET r == GetStore(stores[Standalone], key)
    IN /\ MutexFree(storeLock[Standalone])
       /\ stores' = [stores EXCEPT ![Standalone] = r.store]
       /\ last' = [op |-> "get", key |-> key, ret |-> r.ret, th |-> Observer, log |-> <<>>]
       /\ UNCHANGED <<clock, lastSet, sweptLate, renewedTo>>
       /\ UNCHANGED <<regVars, otherVars>>

\* purge through another clone, once the lock is free
ConcPurge ==
    LET r == PurgeStore(stores[Standalone], clock)
    IN /\ MutexFree(storeLock[Standalone])
       /\ stores' = [stores EXCEPT ![Standalone] = r.store]
       /\ last' = [op |-> "purge", key |-> "", ret |-> NoVal, th |-> Observer, log |-> Popped(r.log)]
       /\ UNCHANGED <<clock, lastSet, sweptLate, renewedTo>>
       /\ UNCHANGED <<regVars, otherVars>>

NextConc ==
    \/ Tick
    \/ \E t \in Threads : SaveBegin(t)
    \/ \E t \in Threads : SaveLock(t)
    \/ \E t \in Threads : SaveCommit(t)
    \/ \E key \in Keys : ConcGet(key)
    \/ ConcPurge

SpecConc == InitConc /\ [][NextConc]_vars

\* the pairs the threads ask the registry for
ArcPairs == {<<"str", "u16">>, <<"u16", "str">>}

\* ------------------------------------- the locks of registry and caches
\* the cache operations besides save
OtherOps == {"get", "get_and_renew", "purge"}

\* where a thread is in such a call: at self.store.lock(), or past it
WaitPc(op) ==
    CASE op = "get" -> "get_wait"
      [] op = "get_and_renew" -> "get_and_renew_wait"
      [] op = "purge" -> "purge_wait"

LockedPc(op) ==
    CASE op = "get" -> "get_locked"
      [] op = "get_and_renew" -> "get_and_renew_locked"
      [] op = "purge" -> "purge_locked"

\* CacheMap::get::<K, V>() by a thread that has no handle yet
LockMapGet(t, K, V) ==
    /\ handle[t] = NoHandle
    /\ RegLock(t, K, V)

\* get (line 163), get_and_renew (lines 172-174, the deadline computed) and
\* purge (line 186) are called through the handle of thread t
CallBegin(t, op, key, d) ==
    /\ pc[t] = "idle"
    /\ handle[t] # NoHandle
    /\ pend' = [pend EXCEPT ![t] =
                  [key |-> IF op = "purge" THEN "" ELSE key,
                   val |-> NoVal,
                   ttl |-> IF op = "get_and_renew" THEN clock + d ELSE NoTTL]]
    /\ pc' = [pc EXCEPT ![t] = WaitPc(op)]
    /\ UNCHANGED <<init, data, boxes, regLock, req, item, entryPtr, handle, storeLock>>
    /\ UNCHANGED <<cacheVars, dbVars, logVars, arcVars>>

\* lines 164, 175, 187: `self.store.lock().unwrap()`
CallLock(t) ==
    \E op \in OtherOps :
        /\ pc[t] = WaitPc(op)
        /\ MutexFree(storeLock[handle[t].store])
        /\ storeLock' = [storeLock EXCEPT ![handle[t].store] = t]
        /\ pc' = [pc EXCEPT ![t] = LockedPc(op)]
        /\ UNCHANGED <<init, data, boxes, regLock, req, item, entryPtr, handle, pend>>
        /\ UNCHANGED <<cacheVars, dbVars, logVars, arcVars>>

\* the body of get, get_and_renew or purge under the lock, and the guard
\* dropped on return
CallReturn(t) ==
    \E op \in OtherOps :
        LET s == handle[t].store
            r == CASE op = "get" -> [GetStore(stores[s], pend[t].key) EXCEPT !.store = stores[s]] @@ [log |-> <<>>]
                   [] op = "get_and_renew" ->
                        GetAndRenewStore(stores[s], pend[t].key, pend[t].ttl) @@ [log |-> <<>>]
                   [] op = "purge" -> PurgeStore(stores[s], clock) @@ [ret |-> NoVal]
        IN /\ pc[t] = LockedPc(op)
           /\ stores' = [stores EXCEPT ![s] = r.store]
           /\ last' = [op |-> op, key |-> pend[t].key, ret |-> r.ret, th |-> t, log |-> Popped(r.log)]
           /\ storeLock' = [storeLock EXCEPT ![s] = GuardDrop(storeLock[s], t)]
           /\ pc' = [pc EXCEPT ![t] = "done"]
           /\ UNCHANGED <<clock, lastSet, sweptLate, renewedTo>>
           /\ UNCHANGED <<init, data, boxes, regLock, req, item, entryPtr, handle, pend>>
           /\ UNCHANGED <<dbVars, logVars, arcVars>>

\* what thread t can do: take its handle from the registry, then make one
\* call on the cache
ThreadStep(t) ==
    \/ \E p \in ArcPairs : LockMapGet(t, p[1], p[2])
    \/ RegAlloc(t)
    \/ RegLookup(t)
    \/ RegEntry(t)
    \/ RegReturn(t)
    \/ SaveBegin(t)
    \/ SaveLock(t)
    \/ SaveCommit(t)
    \/ \E op \in OtherOps, key \in RegKeys, d \in RegDurations : CallBegin(t, op, key, d)
    \/ CallLock(t)
    \/ CallReturn(t)

NextLock ==
    \E t \in Threads : ThreadStep(t)

\* SpecLock: threads on a registry, each scheduled again and again while it
\* has a step to take
SpecLock ==
    /\ InitReg
    /\ [][NextLock]_vars
    /\ \A t \in Threads : WF_vars(ThreadStep(t))

\* --------------------------------------- handles, values and the teardown
\* CacheMap::get::<K, V>(), lines 59-89, the whole call under the mutex of
\* the registry: the cache of the pair is found or constructed and boxed,
\* and the thread receives a clone of it
MapGet(t, K, V) ==
    LET d0 == IF ~init THEN EmptyData ELSE data
        id == TypeIdOf(K, V)
        found == DataGet(d0, id)
        ptr == IF found # NullPtr THEN found ELSE Len(boxes) + 1
        bxs == IF found # NullPtr THEN boxes
               ELSE Append(boxes, [store |-> Len(stores) + 1, ty |-> <<K, V>>])
        sa == IF found # NullPtr THEN storeArc
              ELSE Append(storeArc, [strong |-> 1, drops |-> 0])
        s == CloneCache(bxs[ptr]).store
    IN /\ cacheMapLive
       /\ MutexFree(regLock)
       /\ handle[t] = NoHandle
       /\ found = NullPtr => Len(boxes) < MaxBoxes
       /\ init' = TRUE
       /\ data' = IF found # NullPtr THEN d0 ELSE DataInsert(d0, id, ptr)
       /\ boxes' = bxs
       /\ freed' = IF found # NullPtr THEN freed ELSE Append(freed, 0)
       /\ stores' = IF found # NullPtr THEN stores ELSE Append(stores, EmptyStore)
       /\ storeArc' = [sa EXCEPT ![s].strong = @ + 1]
       /\ handle' = [handle EXCEPT ![t] = [store |-> s, ty |-> <<K, V>>]]
       /\ UNCHANGED <<regLock, pc, req, item, entryPtr>>
       /\ UNCHANGED <<clock, last, lastSet, sweptLate, renewedTo>>
       /\ UNCHANGED <<objs, held, cacheMapLive>>
       /\ UNCHANGED <<dbVars, logVars, concVars>>

\* the keys a sweep removed
Removed(log) == {log[i].key : i \in {j \in DOMAIN log : log[j].valBefore # NoVal /\ log[j].valAfter = NoVal}}

\* the handles of the other threads for a key of store s that the save of
\* key evicted or overwrote are handles to what the cache held before
Stale(h, s, key, gone) ==
    [u \in Threads |->
        IF h[u].store = s /\ h[u].key \in gone \cup {key}
        THEN [h[u] EXCEPT !.fresh = FALSE]
        ELSE h[u]]

\* a value with one reference that map and the caller both use
ArcNewUncounted ==
    [val |-> 0, strong |-> 1, drops |-> 0]

\* save, lines 157-160: Arc::new(val), res.clone() into map, res returned:
\* a new value with two references
ArcNewCloned ==
    [val |-> 0, strong |-> 2, drops |-> 0]

\* Cache::save through the handle of thread t: the value goes behind a new
\* Arc, a clone goes into map, and the caller keeps or drops the Arc returned
ArcSave(t, key, d, keep) ==
    LET s == handle[t].store
        o == NewObj(objs)
        r == SaveStore(stores[s], key, o, clock + d, clock)
        objs1 == [objs EXCEPT ![o] = ArcNewCloned]
        objs2 == ReleaseValues(objs1, StoredValues(stores[s]) \ StoredValues(r.store))
        held1 == Stale(held, s, key, Removed(r.log))
    IN /\ handle[t] # NoHandle
       /\ Cardinality(Allocated(objs)) < MaxObjs
       /\ keep => held[t] = NoHeld
       /\ stores' = [stores EXCEPT ![s] = r.store]
       /\ objs' = IF keep THEN objs2 ELSE ReleaseValue(objs2, o)
       /\ held' = IF keep
                  THEN [held1 EXCEPT ![t] = [obj |-> r.ret, store |-> s, key |-> key,
                                             fresh |-> TRUE, saw |-> 0]]
                  ELSE held1
       /\ UNCHANGED <<clock, last, lastSet, sweptLate, renewedTo>>
       /\ UNCHANGED <<storeArc, freed, cacheMapLive>>
       /\ UNCHANGED <<regVars, dbVars, logVars, concVars>>

\* Cache::get through the handle of thread t, which keeps the Arc returned
ArcGet(t, key) ==
    LET s == handle[t].store
        r == GetStore(stores[s], key)
    IN /\ handle[t] # NoHandle
       /\ held[t] = NoHeld
       /\ stores' = [stores EXCEPT ![s] = r.store]
       /\ IF r.ret # NoVal
          THEN /\ objs' = [objs EXCEPT ![r.ret].strong = @ + 1]
               /\ held' = [held EXCEPT ![t] = [obj |-> r.ret, store |-> s, key |-> key,
                                               fresh |-> TRUE, saw |-> objs[r.ret].val]]
          ELSE UNCHANGED <<objs, held>>
       /\ UNCHANGED <<clock, last, lastSet, sweptLate, renewedTo>>
       /\ UNCHANGED <<storeArc, freed, cacheMapLive>>
       /\ UNCHANGED <<regVars, dbVars, logVars, concVars>>

\* Cache::get_and_renew through the handle of thread t, which keeps the Arc
\* returned
ArcRenew(t, key, d) ==
    LET s == handle[t].store
        r == GetAndRenewStore(stores[s], key, clock + d)
    IN /\ handle[t] # NoHandle
       /\ held[t] = NoHeld
       /\ stores' = [stores EXCEPT ![s] = r.store]
       /\ IF r.ret # NoVal
          THEN /\ objs' = [objs EXCEPT ![r.ret].strong = @ + 1]
               /\ held' = [held EXCEPT ![t] = [obj |-> r.ret, store |-> s, key |-> key,
                                               fresh |-> TRUE, saw |-> objs[r.ret].val]]
          ELSE UNCHANGED <<objs, held>>
       /\ UNCHANGED <<clock, last, lastSet, sweptLate, renewedTo>>
       /\ UNCHANGED <<storeArc, freed, cacheMapLive>>
       /\ UNCHANGED <<regVars, dbVars, logVars, concVars>>

\* test_cache, lines 280-283: the thread locks the Mutex<Vec> behind the Arc
\* it holds and pushes
Push(t) ==
    /\ held[t] # NoHeld
    /\ objs[held[t].obj].val < MaxPush
    /\ objs' = [objs EXCEPT ![held[t].obj].val = @ + 1]
    /\ UNCHANGED <<clock, stores, last, lastSet, sweptLate, renewedTo>>
    /\ UNCHANGED <<held, storeArc, freed, cacheMapLive>>
    /\ UNCHANGED <<regVars, dbVars, logVars, concVars>>

\* the thread drops the Arc<V> it holds
DropValue(t) ==
    /\ held[t] # NoHeld
    /\ objs' = ReleaseValue(objs, held[t].obj)
    /\ held' = [held EXCEPT ![t] = NoHeld]
    /\ UNCHANGED <<storeArc, freed, cacheMapLive>>
    /\ UNCHANGED <<cacheVars, regVars, dbVars, logVars, concVars>>

\* the thread drops its Cache<K, V>
DropHandle(t) ==
    LET r == ReleaseCache(storeArc, stores, objs, handle[t].store)
    IN /\ handle[t] # NoHandle
       /\ handle' = [handle EXCEPT ![t] = NoHandle]
       /\ storeArc' = r.storeArc
       /\ objs' = r.objs
       /\ UNCHANGED <<init, data, boxes, regLock, pc, req, item, entryPtr>>
       /\ UNCHANGED <<held, freed, cacheMapLive>>
       /\ UNCHANGED <<cacheVars, dbVars, logVars, concVars>>

\* the CacheMap goes out of scope: Drop for CacheMapInner runs
DropCacheMap ==
    LET r == DropInner(init, data, boxes, freed, storeArc, stores, objs)
    IN /\ cacheMapLive
       /\ MutexFree(regLock)
       /\ cacheMapLive' = FALSE
       /\ freed' = r.freed
       /\ storeArc' = r.storeArc
       /\ objs' = r.objs
       /\ UNCHANGED held
       /\ UNCHANGED <<cacheVars, regVars, dbVars, logVars, concVars>>

\* SpecArc: a registry in a scope, threads that take handles from it, save
\* and get through them, and drop what they hold
NextArc ==
    \/ \E t \in Threads, p \in ArcPairs : MapGet(t, p[1], p[2])
    \/ \E t \in Threads, key \in RegKeys, d \in Durations, keep \in BOOLEAN : ArcSave(t, key, d, keep)
    \/ \E t \in Threads, key \in RegKeys : ArcGet(t, key)
    \/ \E t \in Threads : DropValue(t)
    \/ \E t \in Threads : DropHandle(t)
    \/ DropCacheMap

SpecArc == InitReg /\ [][NextArc]_vars

\* SpecLive: the threads hold clones of one standalone cache; they save, get,
\* push into the values they hold and drop them
InitLive ==
    /\ CacheInit
    /\ stores = <<EmptyStore>>
    /\ init = FALSE
    /\ data = EmptyData
    /\ boxes = <<>>
    /\ regLock = NoThread
    /\ pc = [t \in Threads |-> "idle"]
    /\ req = [t \in Threads |-> NoPair]
    /\ item = [t \in Threads |-> NullPtr]
    /\ entryPtr = [t \in Threads |-> NullPtr]
    /\ handle = [t \in Threads |-> [store |-> CloneCache([store |-> Standalone]).store, ty |-> NoPair]]
    /\ DbInit
    /\ LogInit
    /\ ConcInit
    /\ objs = [o \in ObjIds |-> NoObj]
    /\ held = [t \in Threads |-> NoHeld]
    /\ storeArc = <<[strong |-> 1 + Cardinality(Threads), drops |-> 0]>>
    /\ freed = <<>>
    /\ cacheMapLive = TRUE

NextLive ==
    \/ \E t \in Threads, key \in Keys, d \in Durations, keep \in BOOLEAN : ArcSave(t, key, d, keep)
    \/ \E t \in Threads, key \in Keys : ArcGet(t, key)
    \/ \E t \in Threads : Push(t)
    \/ \E t \in Threads : DropValue(t)

SpecLive == InitLive /\ [][NextLive]_vars

\* SpecVal: every thread owns a clone of one cache; the threads save, get and
\* renew through it, push into the values they hold, drop the values and
\* drop their clone of the cache
InitVal ==
    /\ CacheInit
    /\ stores = <<EmptyStore>>
    /\ init = FALSE
    /\ data = EmptyData
    /\ boxes = <<>>
    /\ regLock = NoThread
    /\ pc = [t \in Threads |-> "idle"]
    /\ req = [t \in Threads |-> NoPair]
    /\ item = [t \in Threads |-> NullPtr]
    /\ entryPtr = [t \in Threads |-> NullPtr]
    /\ handle = [t \in Threads |-> [store |-> CloneCache([store |-> Standalone]).store, ty |-> NoPair]]
    /\ DbInit
    /\ LogInit
    /\ ConcInit
    /\ objs = [o \in ObjIds |-> NoObj]
    /\ held = [t \in Threads |-> NoHeld]
    /\ storeArc = <<[strong |-> Cardinality(Threads), drops |-> 0]>>
    /\ freed = <<>>
    /\ cacheMapLive = TRUE

NextVal ==
    \/ \E t \in Threads, key \in RegKeys, d \in Durations, keep \in BOOLEAN : ArcSave(t, key, d, keep)
    \/ \E t \in Threads, key \in RegKeys : ArcGet(t, key)
    \/ \E t \in Threads, key \in RegKeys, d \in RegDurations : ArcRenew(t, key, d)
    \/ \E t \in Threads : Push(t)
    \/ \E t \in Threads : DropValue(t)
    \/ \E t \in Threads : DropHandle(t)

SpecVal == InitVal /\ [][NextVal]_vars

\* ------------------------------------------------------------ log_by_req
\* a handler that passes on what get returned
EntriesOrNone(found) ==
    found

\* lines 54-59: the entries cloned out of the Arc, or vec![]
EntriesOrEmpty(found) ==
    IF found # NoVal THEN found ELSE EmptyVec

\* log_by_req once app.cache() has returned the handle: cache.get(&req) and
\* the response
LogByReq(t, key) ==
    LET s == handle[t].store
        r == GetStore(stores[s], key)
    IN /\ pc[t] = "idle"
       /\ handle[t] # NoHandle
       /\ stores' = [stores EXCEPT ![s] = r.store]
       /\ resp' = [req |-> key, body |-> EntriesOrEmpty(r.ret), at |-> clock,
                   stored |-> stores[s].map[key], ttl |-> stores[s].real_ttl[key]]
       /\ last' = [op |-> "log_by_req", key |-> key, ret |-> r.ret, th |-> t, log |-> <<>>]
       /\ UNCHANGED <<clock, lastSet, sweptLate, renewedTo>>
       /\ UNCHANGED <<regVars, dbVars, concVars, arcVars>>

\* SpecLog: the request log. The logger and the handler get the cache from
\* the registry of the application; the logger saves, the handler looks up.
NextLog ==
    \/ Tick
    \/ \E t \in Threads : RegLock(t, LogPair[1], LogPair[2])
    \/ \E t \in Threads : RegAlloc(t)
    \/ \E t \in Threads : RegLookup(t)
    \/ \E t \in Threads : RegEntry(t)
    \/ \E t \in Threads : RegReturn(t)
    \/ \E key \in Keys, val \in RegVals, d \in Durations : RegSave(Logger, key, val, d)
    \/ \E key \in Keys : LogByReq(Handler, key)

SpecLog == InitReg /\ [][NextLog]_vars

\* ------------------------------------------------------- open() and drop
\* open(path, flags), lines 39-40: the call starts with its flags
OpenCall(s, create, read_only) ==
    /\ dbs[s].state = "none"
    /\ dbs' = [dbs EXCEPT ![s] = [state |-> "dir", create |-> create, read_only |-> read_only,
                                  lock |-> Unlocked, result |-> "none"]]
    /\ UNCHANGED <<dbDir, dbLockFile>>
    /\ UNCHANGED <<cacheVars, regVars, logVars, concVars, arcVars>>

\* lines 43-53: fs::create_dir_all(&main_path) when flags.create
OpenCreateDir(s) ==
    /\ dbs[s].state = "dir"
    /\ dbDir' = (dbDir \/ dbs[s].create)
    /\ dbs' = [dbs EXCEPT ![s].state = "file"]
    /\ UNCHANGED dbLockFile
    /\ UNCHANGED <<cacheVars, regVars, logVars, concVars, arcVars>>

\* lines 56-75: create or open the lock file, Error::Open when that fails
OpenLockFile(s) ==
    /\ dbs[s].state = "file"
    /\ IF LockFileOpens(dbs[s].create, dbDir, dbLockFile)
       THEN /\ dbLockFile' = TRUE
            /\ dbs' = [dbs EXCEPT ![s].state = "lock"]
       ELSE /\ dbs' = [dbs EXCEPT ![s] = [NoDb EXCEPT !.result = "Open"]]
            /\ UNCHANGED dbLockFile
    /\ UNCHANGED dbDir
    /\ UNCHANGED <<cacheVars, regVars, logVars, concVars, arcVars>>

\* lines 81-106: the shared or the exclusive lock, then Database::new; a
\* refused lock returns Error::ReadLock or Error::WriteLock and drops lock_file
OpenLock(s) ==
    /\ dbs[s].state = "lock"
    /\ IF dbs[s].read_only
       THEN IF TryLockShared(dbs, s)
            THEN dbs' = [dbs EXCEPT ![s].state = "open", ![s].lock = "shared", ![s].result = "Ok"]
            ELSE dbs' = [dbs EXCEPT ![s] = [NoDb EXCEPT !.lock = CloseLockFile(dbs[s].lock),
                                                        !.result = "ReadLock"]]
       ELSE IF TryLockExclusive(dbs, s)
            THEN dbs' = [dbs EXCEPT ![s].state = "open", ![s].lock = "exclusive", ![s].result = "Ok"]
            ELSE dbs' = [dbs EXCEPT ![s] = [NoDb EXCEPT !.lock = CloseLockFile(dbs[s].lock),
                                                        !.result = "WriteLock"]]
    /\ UNCHANGED <<dbDir, dbLockFile>>
    /\ UNCHANGED <<cacheVars, regVars, logVars, concVars, arcVars>>

\* drop(db): the Database goes, and _lock_file with it
DropDatabase(s) ==
    /\ dbs[s].state = "open"
    /\ dbs' = [dbs EXCEPT ![s] = [NoDb EXCEPT !.lock = CloseLockFile(dbs[s].lock),
                                                !.result = "Dropped"]]
    /\ UNCHANGED <<dbDir, dbLockFile>>
    /\ UNCHANGED <<cacheVars, regVars, logVars, concVars, arcVars>>

\* SpecDb: one database path, nothing there yet
InitDb ==
    /\ CacheInit
    /\ stores = <<>>
    /\ RegInit
    /\ OtherInit

NextDb ==
    \/ \E s \in DbSlots, create \in BOOLEAN, read_only \in BOOLEAN : OpenCall(s, create, read_only)
    \/ \E s \in DbSlots : OpenCreateDir(s)
    \/ \E s \in DbSlots : OpenLockFile(s)
    \/ \E s \in DbSlots : OpenLock(s)
    \/ \E s \in DbSlots : DropDatabase(s)

SpecDb == InitDb /\ [][NextDb]_vars

\* =================================================================== claims
\* The store of the standalone cache, and what get(k) returns from it.
St == stores[Standalone]

Lookup(k) == GetStore(St, k).ret

\* the step is a call that sweeps: save or purge; its do_purge read clock'
SweepCall == last'.op \in {"save", "purge"}

\* the loop iterations of the sweep of this step, each with the state of the
\* popped key before and after the iteration
SweepIterations == DoPurge(St, clock', <<>>).log

\* C1: a key saved with save(k, v, d) at time t and neither overwritten nor
\* renewed since is returned by get at every time before t + d, and is absent
\* once a later call has swept at a time strictly after t + d.
C1_ExpiryCorrectness ==
    \A k \in Keys :
        lastSet[k].kind = "save" =>
            /\ clock < lastSet[k].deadline => Lookup(k) = lastSet[k].val
            /\ sweptLate[k] => Lookup(k) = NoVal

\* C2: a sweep iteration that pops a queue entry of k whose recorded
\* expiration differs from real_ttl[k] leaves map[k] and real_ttl[k] as they
\* were; a key for which the sweep popped stale entries only keeps its value
\* and its deadline through the whole call.
C2_StaleQueueImmunity ==
    [][SweepCall =>
        /\ \A i \in DOMAIN SweepIterations :
             LET it == SweepIterations[i] IN
             it.ttlBefore # it.expire =>
                 /\ it.valAfter = it.valBefore
                 /\ it.ttlAfter = it.ttlBefore
        /\ \A k \in Keys :
             (/\ ~(last'.op = "save" /\ last'.key = k)
              /\ \A i \in DOMAIN SweepIterations :
                     SweepIterations[i].key = k
                         => SweepIterations[i].ttlBefore # SweepIterations[i].expire)
             => /\ stores'[Standalone].map[k] = St.map[k]
                /\ stores'[Standalone].real_ttl[k] = St.real_ttl[k]
                /\ GetStore(stores'[Standalone], k).ret = St.map[k]]_vars

\* a purge popped the old queue entry of a key saved again before its old
\* deadline passed, and the key still has the newer value
C2_Witness ==
    \E k \in Keys :
        /\ last.op = "purge"
        /\ lastSet[k].kind = "save"
        /\ \E i \in DOMAIN last.log :
               /\ last.log[i].key = k
               /\ ~last.log[i].removed
               /\ last.log[i].expire < lastSet[k].deadline
        /\ Lookup(k) = lastSet[k].val
        /\ St.real_ttl[k] = lastSet[k].deadline

\* C3 as stated: once get_and_renew moved the deadline of k forward to
\* t2 + d2, no later save, purge or get removes k before t2 + d2.
C3_RenewalOutlivesAnyCall ==
    \A k \in Keys :
        (renewedTo[k] # NoTTL /\ clock < renewedTo[k]) => Lookup(k) # NoVal

\* C3 amended: while k is neither saved nor renewed again after the
\* get_and_renew that moved its deadline forward to t2 + d2, k keeps its value
\* at every time before t2 + d2, whatever save (of other keys), purge and get
\* calls run.
C3_RenewalPrecedence ==
    \A k \in Keys :
        (lastSet[k].kind = "renew" /\ lastSet[k].later /\ clock < lastSet[k].deadline)
            => Lookup(k) = lastSet[k].val

\* a sweep popped the entry of the original deadline of a renewed key, and
\* the key is still there before its renewed deadline
C3_Witness ==
    \E k \in Keys :
        /\ lastSet[k].kind = "renew"
        /\ lastSet[k].later
        /\ clock < lastSet[k].deadline
        /\ last.op \in {"save", "purge"}
        /\ \E i \in DOMAIN last.log :
               /\ last.log[i].key = k
               /\ last.log[i].expire < lastSet[k].deadline
               /\ last.log[i].expire <= clock
        /\ Lookup(k) = lastSet[k].val

\* C4: a key whose deadline get_and_renew set to t2 + d2 is absent once a
\* later call has swept at a time strictly after t2 + d2.
C4_ExpiryAfterRenewal ==
    \A k \in Keys :
        (lastSet[k].kind = "renew" /\ sweptLate[k]) => Lookup(k) = NoVal

\* C5: a sweep, inside save or purge, leaves every key whose real_ttl is
\* strictly later than the sweep's clock reading in the cache with its value
\* and its deadline (the key save inserts aside).
C5_NoEarlyEviction ==
    [][SweepCall =>
        \A k \in Keys :
            (/\ St.map[k] # NoVal
             /\ St.real_ttl[k] > clock'
             /\ ~(last'.op = "save" /\ last'.key = k))
            => /\ stores'[Standalone].map[k] = St.map[k]
               /\ stores'[Standalone].real_ttl[k] = St.real_ttl[k]]_vars

\* the sweep of a save with a TTL of zero removed an expired entry and left
\* another, unexpired key with its value
C5_Witness ==
    /\ last.op = "save"
    /\ St.real_ttl[last.key] <= clock
    /\ \E i \in DOMAIN last.log : last.log[i].removed
    /\ \E k \in Keys :
           /\ k # last.key
           /\ St.real_ttl[k] > clock
           /\ Lookup(k) = lastSet[k].val
           /\ lastSet[k].kind = "save"

\* C6: get changes nothing of the store and returns the stored value, also
\* that of a key whose deadline has passed.
C6_LazyGet ==
    [][last'.op = "get" =>
        /\ stores' = stores
        /\ last'.ret = St.map[last'.key]]_vars

\* get returned the value of a key whose deadline had passed
C6_Witness ==
    /\ last.op = "get"
    /\ last.ret # NoVal
    /\ St.real_ttl[last.key] # NoTTL
    /\ St.real_ttl[last.key] < clock
    /\ last.ret = lastSet[last.key].val

\* C7: when save(k, v, d) returns, map[k] = v with the deadline now + d, also
\* when that deadline is not after the time of the sweep of that save; save
\* returns v; and the calls that are neither save nor purge (get and
\* get_and_renew) leave map as it is, so a get(k) after them returns v.
C7_SavePostcondition ==
    /\ [](last.op = "save" =>
            /\ Lookup(last.key) = last.ret
            /\ lastSet[last.key] = [kind |-> "save", val |-> last.ret,
                                    deadline |-> St.real_ttl[last.key], later |-> FALSE])
    /\ [][last'.op \in {"get", "get_and_renew"} =>
            \A k \in Keys : GetStore(stores'[Standalone], k).ret = Lookup(k)]_vars

\* save returned with the entry it inserted, although the deadline of that
\* entry was before the time of the sweep of that save
C7_Witness ==
    /\ last.op = "save"
    /\ lastSet[last.key].deadline < clock
    /\ Lookup(last.key) = last.ret
    /\ last.ret # NoVal

\* C12: get_and_renew(k, d) of a key that is not in the cache returns None and
\* leaves map, real_ttl and next_ttl as they were: no deadline is created.
C12_RenewMissingNoOp ==
    [][(last'.op = "get_and_renew" /\ St.map[last'.key] = NoVal) =>
        /\ last'.ret = NoVal
        /\ stores'[Standalone].map = St.map
        /\ stores'[Standalone].real_ttl = St.real_ttl
        /\ stores'[Standalone].next_ttl = St.next_ttl]_vars

\* get_and_renew of a missing key returned None while another key is cached,
\* and the missing key has no deadline
C12_Witness ==
    /\ last.op = "get_and_renew"
    /\ last.ret = NoVal
    /\ St.map[last.key] = NoVal
    /\ St.real_ttl[last.key] = NoTTL
    /\ \E k \in Keys : St.map[k] # NoVal
    /\ St.next_ttl # <<>>

\* C19: in every reachable state the keys of map are the keys of real_ttl,
\* and a sweep iteration that removes a key removes it from both.
C19_MapDeadlineConsistency ==
    /\ [](\A k \in Keys : (St.map[k] # NoVal) <=> (St.real_ttl[k] # NoTTL))
    /\ [][SweepCall =>
            \A i \in DOMAIN SweepIterations :
                LET it == SweepIterations[i] IN
                (it.valAfter = NoVal) <=> (it.ttlAfter = NoTTL)]_vars

\* a sweep removed an expired key while another key stays, with its deadline
C19_Witness ==
    /\ last.op \in {"save", "purge"}
    /\ \E i \in DOMAIN last.log :
           /\ last.log[i].removed
           /\ St.map[last.log[i].key] = NoVal
           /\ St.real_ttl[last.log[i].key] = NoTTL
    /\ \E k \in Keys : St.map[k] # NoVal /\ St.real_ttl[k] # NoTTL

\* C20: for every key k in the cache the pair (real_ttl[k], k) is an entry of
\* the queue next_ttl.
C20_QueueCoversDeadlines ==
    \A k \in Keys :
        St.map[k] # NoVal =>
            \E i \in DOMAIN St.next_ttl :
                St.next_ttl[i] = [expire |-> St.real_ttl[k], key |-> k]

\* ---------------------------------------------------------- registry claims
\* the threads that hold a handle CacheMap::get returned
Holders == {t \in Threads : handle[t] # NoHandle}

\* the boxed caches constructed for the pair p
BoxesOf(p) == {b \in DOMAIN boxes : boxes[b].ty = p}

\* the step is a save through the handle of thread t: the last call is that
\* save and no thread moved inside CacheMap::get
SaveBy(t) == last'.op = "save" /\ last'.th = t /\ pc' = pc

\* C8: two handles CacheMap::get returned for the same (K, V), whenever and
\* with whatever other registry calls in between, have one store: a save
\* through one is what get through the other returns.
C8_SharedStore ==
    /\ [](\A t, u \in Holders : handle[t].ty = handle[u].ty => handle[t].store = handle[u].store)
    /\ [][\A t, u \in Holders :
            (SaveBy(t) /\ handle[u].ty = handle[t].ty)
                => GetStore(stores'[handle'[u].store], last'.key).ret = last'.ret]_vars

\* thread t got its handle, other pairs were requested and created, thread u
\* got a handle for the same pair, u saved and t read the value back
C8_Witness ==
    \E t, u \in Holders :
        /\ t # u
        /\ handle[t].ty = handle[u].ty
        /\ Len(boxes) >= 2
        /\ last.op = "get"
        /\ last.th = t
        /\ last.ret # NoVal
        /\ stores[handle[u].store].map[last.key] = last.ret

\* C9: handles for different ordered pairs, (A, B) and (B, A) among them,
\* have different stores: a save through the handle of one pair leaves the
\* store of every handle of another pair as it was.
C9_TypeIsolation ==
    /\ [](\A t, u \in Holders : handle[t].ty # handle[u].ty => handle[t].store # handle[u].store)
    /\ [][\A t, u \in Holders :
            (SaveBy(t) /\ handle[u].ty # handle[t].ty)
                => stores'[handle'[u].store] = stores[handle[u].store]]_vars

\* a save went through the handle for (K, V) while another thread holds the
\* handle for (V, K), whose store is still empty
C9_Witness ==
    \E t, u \in Holders :
        /\ handle[t].ty[1] = handle[u].ty[2]
        /\ handle[t].ty[2] = handle[u].ty[1]
        /\ handle[t].ty[1] # handle[t].ty[2]
        /\ last.op = "save"
        /\ last.th = t
        /\ stores[handle[t].store].map[last.key] = last.ret
        /\ stores[handle[u].store] = EmptyStore

\* C10: in every interleaving of CacheMap::get calls, at most one cache is
\* constructed per pair, every handle returned is a handle to the cache the
\* registry holds for the pair, and an entry of the registry, once there,
\* stays as it is.
C10_ExactlyOnce ==
    /\ [](\A p \in Pairs : Cardinality(BoxesOf(p)) <= 1)
    /\ [](\A t \in Holders :
            LET ptr == DataGet(data, TypeIdOf(handle[t].ty[1], handle[t].ty[2])) IN
            /\ ptr # NullPtr
            /\ boxes[ptr].ty = handle[t].ty
            /\ boxes[ptr].store = handle[t].store)
    /\ [][\A id \in DOMAIN data : data[id] # NullPtr => data'[id] = data[id]]_vars

\* every pair has been requested, both threads called CacheMap::get for one
\* pair, and both hold a handle to the one cache constructed for it
C10_Witness ==
    \E t, u \in Holders :
        /\ t # u
        /\ handle[t].ty = handle[u].ty
        /\ handle[t].store = handle[u].store
        /\ Cardinality(BoxesOf(handle[t].ty)) = 1
        /\ Len(boxes) = Cardinality(Pairs)
\* ---------------------------------------------------------- database claims
\* the slots that hold a Database, and those that hold one opened for writing
OpenDbs == {s \in DbSlots : dbs[s].state = "open"}

Writers == {s \in OpenDbs : ~dbs[s].read_only}

\* the step is the locking step of the open() call of slot s
Locks(s) == dbs[s].state = "lock" /\ dbs'[s].state # "lock"

\* C16: a Database opened for writing never coexists with another Database on
\* the path; an open that meets a conflicting lock (a writer for a read-only
\* open, any Database for a write open) creates no Database and fails with
\* Error::ReadLock when read-only and Error::WriteLock otherwise.
C16_WriterExclusion ==
    /\ [](\A s \in Writers : OpenDbs = {s})
    /\ [][\A s \in DbSlots :
            (Locks(s) /\ (IF dbs[s].read_only THEN Writers # {} ELSE OpenDbs # {}))
                => /\ dbs'[s].state = "none"
                   /\ dbs'[s].result = (IF dbs[s].read_only THEN "ReadLock" ELSE "WriteLock")
                   /\ OpenDbs' = OpenDbs]_vars

\* while a Database opened for writing is alive, a read-only open was refused
\* with Error::ReadLock and a write open with Error::WriteLock
C16_Witness ==
    \E w \in Writers, s, u \in DbSlots :
        /\ OpenDbs = {w}
        /\ dbs[s].result = "ReadLock"
        /\ dbs[u].result = "WriteLock"

\* C17: while no Database opened for writing is alive, a read-only open of
\* the existing database succeeds, however many read-only Databases are
\* alive, and they stay alive beside it.
C17_MultipleReaders ==
    [][\A s \in DbSlots :
        /\ (dbs[s].state = "file" /\ dbs'[s].state # "file" /\ dbLockFile)
               => dbs'[s].state = "lock"
        /\ (Locks(s) /\ dbs[s].read_only /\ Writers = {})
               => /\ dbs'[s].state = "open"
                  /\ dbs'[s].result = "Ok"
                  /\ dbs'[s].read_only
                  /\ OpenDbs' = OpenDbs \cup {s}]_vars

\* every slot holds a read-only Database of the same path
C17_Witness ==
    /\ OpenDbs = DbSlots
    /\ \A s \in DbSlots : dbs[s].read_only /\ ~dbs[s].create /\ dbs[s].lock = "shared"

\* C18: a slot holds the lock exactly while it holds a Database (shared for a
\* read-only one, exclusive otherwise), and once no Database is alive an open
\* of the existing database, in either mode and with create = false, succeeds.
C18_LockReleasedOnDrop ==
    /\ [](\A s \in DbSlots :
            /\ (dbs[s].lock # Unlocked) <=> (s \in OpenDbs)
            /\ s \in OpenDbs => dbs[s].lock = (IF dbs[s].read_only THEN "shared" ELSE "exclusive"))
    /\ [][\A s \in DbSlots :
            /\ (dbs[s].state = "file" /\ dbs'[s].state # "file" /\ dbLockFile)
                   => dbs'[s].state = "lock"
            /\ (Locks(s) /\ OpenDbs = {})
                   => dbs'[s].state = "open" /\ dbs'[s].result = "Ok"]_vars

\* a Database was dropped and a write open with create = false then succeeded
C18_Witness ==
    \E s \in Writers, u \in DbSlots :
        /\ ~dbs[s].create
        /\ dbs[u].result = "Dropped"
        /\ OpenDbs = {s}

\* ------------------------------------------------------- request log claims
\* C15 as stated: log_by_req returns an empty collection whenever the request
\* id is absent from the cache or the deadline of its entry has passed, and
\* the stored entries otherwise.
C15_EmptyWhenAbsentOrExpired ==
    resp.req # "" =>
        resp.body = (IF resp.stored = NoVal \/ resp.ttl < resp.at THEN EmptyVec ELSE resp.stored)

\* C15 amended: log_by_req returns an empty collection, never an error,
\* whenever map has no entry for the request id, and the stored entries
\* otherwise, also when their deadline has passed and no sweep removed them.
C15_EmptyWhenAbsent ==
    resp.req # "" =>
        /\ resp.body \in Vals \cup {EmptyVec}
        /\ resp.body = (IF resp.stored = NoVal THEN EmptyVec ELSE resp.stored)

\* the handler answered with the entries of a request whose deadline had
\* passed
C15_Witness ==
    /\ resp.req # ""
    /\ resp.stored # NoVal
    /\ resp.ttl < resp.at
    /\ resp.body = resp.stored
    /\ last.op = "log_by_req"
    /\ last.th = Handler

\* ------------------------------------------------------- concurrency claims
\* C11: once every thread has saved its own key, with a TTL that does not
\* elapse, whatever get and purge calls other threads made meanwhile on
\* clones of the cache, get returns for every key the value its thread saved,
\* kept with the deadline that thread computed.
C11_ConcurrentSaves ==
    (\A t \in Threads : pc[t] = "done") =>
        \A t \in Threads :
            /\ GetStore(St, KeyOf(t)).ret = ValOf(t)
            /\ St.real_ttl[KeyOf(t)] = pend[t].ttl

\* all threads are done; the one that read the clock first took the lock
\* last, so the queue holds the later deadline first; the observer then got
\* the value of one of the threads
C11_Witness ==
    /\ \A t \in Threads : pc[t] = "done"
    /\ Len(St.next_ttl) = Cardinality(Threads)
    /\ St.next_ttl[1].expire > St.next_ttl[2].expire
    /\ last.op = "get"
    /\ last.th = Observer
    /\ \E t \in Threads : last.key = KeyOf(t) /\ last.ret = ValOf(t)

\* ------------------------------------------------------------ value claims
\* the registry and every Cache handle taken from it have been dropped
TornDown == ~cacheMapLive /\ \A t \in Threads : handle[t] = NoHandle

\* no thread holds an Arc<V>
NoneHeld == \A t \in Threads : held[t] = NoHeld

\* C13 as stated: once the registry and every cache handle obtained from it
\* have been dropped, every value still stored in one of its caches has been
\* dropped exactly once.
C13_TeardownDropsStored ==
    TornDown =>
        \A s \in DOMAIN stores : \A o \in StoredValues(stores[s]) : objs[o].drops = 1

\* C13 amended: once the registry, every cache handle obtained from it and
\* every value handle save or get returned have been dropped, every value
\* still stored in its caches has been dropped exactly once, the values whose
\* TTL had not elapsed too; with value handles still held, the values held are
\* the ones not dropped; no value, store or boxed cache is ever dropped twice,
\* and none while a handle to it is held.
C13_TeardownReclaims ==
    /\ \A o \in ObjIds : objs[o].drops <= 1 /\ (objs[o].drops = 1 => objs[o].strong = 0)
    /\ \A s \in DOMAIN storeArc : storeArc[s].drops <= 1 /\ (storeArc[s].drops = 1 => storeArc[s].strong = 0)
    /\ \A b \in DOMAIN freed : freed[b] <= 1
    /\ \A t \in Threads : held[t] # NoHeld => objs[held[t].obj].drops = 0
    /\ \A t \in Threads : handle[t] # NoHandle => storeArc[handle[t].store].drops = 0
    /\ TornDown =>
          /\ \A b \in DOMAIN freed : freed[b] = 1
          /\ \A s \in DOMAIN stores :
                /\ storeArc[s].drops = 1
                /\ \A o \in StoredValues(stores[s]) :
                       objs[o].drops = (IF \E t \in Threads : held[t].obj = o THEN 0 ELSE 1)
    /\ (TornDown /\ NoneHeld) => \A o \in Allocated(objs) : objs[o].drops = 1

\* everything has been dropped; the registry had two caches, each with a
\* value whose TTL had not elapsed, and these values have been dropped once
C13_Witness ==
    /\ TornDown
    /\ NoneHeld
    /\ Len(stores) = Cardinality(ArcPairs)
    /\ \A s \in DOMAIN stores :
           \E k \in Keys :
               /\ stores[s].map[k] # NoVal
               /\ stores[s].real_ttl[k] > clock
               /\ objs[stores[s].map[k]].drops = 1

\* C14: the Arc<V> that get (or save) returned for a key is the value the
\* cache stores under the key, for every clone, until the key is evicted or
\* overwritten: handles taken through different clones are handles to one
\* value, and what one thread pushes into it is what the handles of the
\* others, and of a later get, show.
C14_LiveSharedView ==
    /\ [](\A t \in Threads :
            held[t].fresh => stores[held[t].store].map[held[t].key] = held[t].obj)
    /\ [](\A t, u \in Threads :
            (held[t].fresh /\ held[u].fresh /\ held[t].store = held[u].store /\ held[t].key = held[u].key)
                => held[t].obj = held[u].obj)
    /\ [][\A t \in Threads :
            (held[t].fresh /\ held'[t] = held[t] /\ objs'[held[t].obj].val # objs[held[t].obj].val)
                => /\ \A u \in Threads :
                        (held'[u].fresh /\ held'[u].store = held[t].store /\ held'[u].key = held[t].key)
                            => objs'[held'[u].obj].val = objs'[held[t].obj].val
                   /\ objs'[GetStore(stores'[held[t].store], held[t].key).ret].val
                          = objs'[held[t].obj].val]_vars

\* a thread holds the value it got before anything was pushed; the other
\* thread got its handle through its own clone after a push, and saw it
C14_Witness ==
    \E t, u \in Threads :
        /\ t # u
        /\ held[t].fresh /\ held[u].fresh
        /\ held[t].key = held[u].key
        /\ held[t].obj = held[u].obj
        /\ held[t].saw = 0
        /\ held[u].saw > 0
        /\ objs[held[u].obj].val = held[u].saw

\* ------------------------------------------------------------ sweep claims
\* the sweep a save or a purge would run from this state at time now
SweepFrom(now) == DoPurge(St, now, <<>>)

\* the step is a save or a purge, not the clock advancing after one
SweepStep == SweepCall /\ ~(clock' # clock /\ stores' = stores)

\* the root of the queue has the smallest expiration of the queue
RootIsMin(q) == q # <<>> => \A i \in DOMAIN q : HeapPeek(q).expire <= q[i].expire

\* C21: at every step of a sweep the entry that is peeked, and popped if
\* expired, has the smallest recorded expiration among the entries in the
\* queue, for every order in which the entries were pushed.
C21_MinOrderedSweep ==
    \A now \in clock..MaxTime :
        /\ RootIsMin(St.next_ttl)
        /\ \A i \in DOMAIN SweepFrom(now).log : SweepFrom(now).log[i].minBefore
        /\ RootIsMin(SweepFrom(now).store.next_ttl)

\* C22: when a sweep stops, the queue holds no entry whose recorded
\* expiration is at or before the time of the sweep, so a stale entry is
\* popped by the first sweep that runs after its recorded expiration.
C22_StaleEventuallyDiscarded ==
    [][SweepStep =>
        LET q == SweepFrom(clock').store.next_ttl IN
        \A i \in DOMAIN q : q[i].expire > clock']_vars

\* C28: a purge that reads the same clock as the save of a key with a TTL of
\* zero, and follows it, removes that key.
C28_DeadlineBoundary ==
    [][(/\ last.op = "save"
        /\ St.real_ttl[last.key] = clock
        /\ last'.op = "purge"
        /\ clock' = clock)
       => /\ stores'[Standalone].map[last.key] = NoVal
          /\ stores'[Standalone].real_ttl[last.key] = NoTTL]_vars

\* C23: get_and_renew(k, d) of a key in the cache sets real_ttl[k] to
\* now + d and changes nothing else: the value of k, the value and the
\* deadline of every other key and the queue stay as they were, no sweep
\* runs, and the value returned is the one stored before the call.
C23_RenewalFrame ==
    /\ [](\A k \in Keys, d \in Durations :
            St.map[k] # NoVal =>
                LET r == GetAndRenewStore(St, k, clock + d) IN
                /\ r.ret = St.map[k]
                /\ r.store = [St EXCEPT !.real_ttl[k] = clock + d])
    /\ [][(last'.op = "get_and_renew" /\ clock' = clock /\ St.map[last'.key] # NoVal) =>
            /\ last'.ret = St.map[last'.key]
            /\ stores'[Standalone].map = St.map
            /\ stores'[Standalone].next_ttl = St.next_ttl
            /\ \A k \in Keys \ {last'.key} :
                   stores'[Standalone].real_ttl[k] = St.real_ttl[k]
            /\ \E d \in Durations :
                   stores'[Standalone].real_ttl[last'.key] = clock + d]_vars

\* get_and_renew returned the value of a key whose queue entry had expired,
\* beside another expired key; both entries are still queued, the other key
\* is still cached, and the renewed deadline is in no queue entry
C23_Witness ==
    /\ last.op = "get_and_renew"
    /\ last.ret # NoVal
    /\ St.map[last.key] = last.ret
    /\ St.real_ttl[last.key] > clock
    /\ Len(St.next_ttl) = Cardinality(Keys)
    /\ \A i \in DOMAIN St.next_ttl : St.next_ttl[i].expire <= clock
    /\ \A k \in Keys : St.map[k] # NoVal

\* ------------------------------------------------------- registry recovery
\* C24: identities of distinct ordered pairs never coincide; the object the
\* registry holds under the identity of (K, V) was constructed as a cache of
\* (K, V); so the entry a CacheMap::get found, and the pointer it casts to
\* *const Cache<K, V> and clones, is a cache of the pair it was called for.
C24_TypeSafeRecovery ==
    /\ \A K1 \in Types, V1 \in Types, K2 \in Types, V2 \in Types :
           TypeIdOf(K1, V1) = TypeIdOf(K2, V2) => (K1 = K2 /\ V1 = V2)
    /\ \A K \in Types, V \in Types :
           LET ptr == DataGet(data, TypeIdOf(K, V)) IN
           ptr # NullPtr => (ptr \in DOMAIN boxes /\ boxes[ptr].ty = <<K, V>>)
    /\ \A t \in Threads :
           /\ (pc[t] = "entry" /\ item[t] # NullPtr) => boxes[item[t]].ty = req[t]
           /\ pc[t] = "clone" => boxes[entryPtr[t]].ty = req[t]
    /\ \A t \in Holders :
           \E b \in DOMAIN boxes :
               boxes[b].store = handle[t].store /\ boxes[b].ty = handle[t].ty

\* a thread is about to cast the entry it found for its pair, an entry made
\* by an earlier call, while the registry holds the caches of every pair,
\* the swapped pair among them, and the other thread holds the handle of a
\* pair with the same key type
C24_Witness ==
    \E t, u \in Threads :
        /\ t # u
        /\ pc[t] = "clone"
        /\ item[t] # NullPtr
        /\ entryPtr[t] = item[t]
        /\ Len(boxes) = Cardinality(Pairs)
        /\ \E b \in DOMAIN boxes : boxes[b].ty = <<req[t][2], req[t][1]>>
        /\ handle[u] # NoHandle
        /\ handle[u].ty # req[t]
        /\ handle[u].ty[1] = req[t][1]

\* ------------------------------------------------------- values and eviction
\* the threads that hold a handle to the value o
HoldersOf(o) == {t \in Threads : held[t].obj = o}

\* the places where a live cache stores the value o
PlacesOf(o) ==
    {<<s, k>> \in (DOMAIN stores) \X Keys : storeArc[s].drops = 0 /\ stores[s].map[k] = o}

\* C25: a value handle that save, get or get_and_renew returned stays valid,
\* with its content, after the cache evicted or overwrote the key or was
\* dropped: the references of a value are those of its holders and of the
\* cache, eviction takes away the reference of the cache only, and the value
\* is destroyed when, and only when, the last reference goes.
C25_ValuesOutliveEviction ==
    /\ [](\A t \in Threads :
            held[t] # NoHeld =>
                /\ objs[held[t].obj].drops = 0
                /\ objs[held[t].obj].strong >= 1)
    /\ [](\A o \in Allocated(objs) :
            /\ objs[o].strong = Cardinality(HoldersOf(o)) + Cardinality(PlacesOf(o))
            /\ objs[o].drops = (IF objs[o].strong = 0 THEN 1 ELSE 0))
    /\ [][\A o \in Allocated(objs) :
            objs'[o].val # objs[o].val =>
                /\ HoldersOf(o) # {}
                /\ stores' = stores
                /\ storeArc' = storeArc]_vars

\* the cache was dropped with every clone of it; a thread still holds a value
\* it pushed into, the last reference to it, whose key was evicted or
\* overwritten before; another value has been destroyed
C25_Witness ==
    \E t \in Threads :
        /\ \A u \in Threads : handle[u] = NoHandle
        /\ storeArc[Standalone].drops = 1
        /\ held[t] # NoHeld
        /\ ~held[t].fresh
        /\ objs[held[t].obj].val > 0
        /\ objs[held[t].obj].strong = 1
        /\ objs[held[t].obj].drops = 0
        /\ \E o \in Allocated(objs) : objs[o].drops = 1

\* ------------------------------------------------------- sweep termination
\* C26: every sweep terminates. An iteration stops or pops one queue entry
\* and pushes none, so a sweep from any state, at any time, makes at most as
\* many iterations as the queue has entries and leaves the others queued;
\* a purge leaves the queue with what its sweep left, a save with that and
\* the one entry it pushes.
C26_SweepTermination ==
    /\ [](\A now \in clock..MaxTime :
            /\ Len(SweepFrom(now).log) <= Len(St.next_ttl)
            /\ Len(SweepFrom(now).store.next_ttl) = Len(St.next_ttl) - Len(SweepFrom(now).log)
            /\ \A i \in DOMAIN SweepFrom(now).log : SweepFrom(now).log[i].expire <= now)
    /\ [][SweepStep =>
            /\ Len(last'.log) = Len(SweepIterations)
            /\ Len(last'.log) <= Len(St.next_ttl)
            /\ Len(stores'[Standalone].next_ttl)
                 = Len(St.next_ttl) - Len(last'.log) + (IF last'.op = "save" THEN 1 ELSE 0)]_vars

\* a purge made as many iterations as the queue had entries, a stale entry
\* among them, and emptied it
C26_Witness ==
    /\ last.op = "purge"
    /\ Len(last.log) = MaxQueue
    /\ St.next_ttl = <<>>
    /\ \E i \in DOMAIN last.log : ~last.log[i].removed
    /\ \E i \in DOMAIN last.log : last.log[i].removed

\* ---------------------------------------------------------- lock claims
\* the locks thread t holds: the registry mutex, the mutexes of stores
LocksHeld(t) ==
    (IF regLock = t THEN {"registry"} ELSE {}) \cup {s \in StoreIds : storeLock[s] = t}

\* thread t is inside CacheMap::get, past the lock
InRegistry(t) == pc[t] \in {"init", "lookup", "entry", "clone"}

\* thread t is inside a cache operation, past the lock of the store
InStore(t) == pc[t] \in {"locked"} \cup {LockedPc(op) : op \in OtherOps}

\* thread t is inside a cache operation, at the lock of the store
AtStoreLock(t) == pc[t] \in {"saving"} \cup {WaitPc(op) : op \in OtherOps}

\* C27: no operation holds more than one lock at a time: a thread holds the
\* registry mutex exactly while it is inside CacheMap::get and the mutex of
\* a store exactly while it is inside an operation on that cache; a thread
\* at the lock of a store that no thread holds can take it, whatever other
\* locks are held; and under fair scheduling every thread returns from
\* CacheMap::get and from its save, get, get_and_renew or purge.
C27_DeadlockFreedom ==
    /\ [](\A t \in Threads :
            /\ Cardinality(LocksHeld(t)) <= 1
            /\ (regLock = t) <=> InRegistry(t)
            /\ \A s \in StoreIds : (storeLock[s] = t) <=> (InStore(t) /\ handle[t].store = s))
    /\ [](\A t \in Threads :
            (AtStoreLock(t) /\ storeLock[handle[t].store] = NoThread)
                => ENABLED (SaveLock(t) \/ CallLock(t)))
    /\ \A t \in Threads : (InRegistry(t) ~> handle[t] # NoHandle)
    /\ \A t \in Threads : (AtStoreLock(t) ~> pc[t] = "done")
    /\ \A t \in Threads : <>(pc[t] = "done")

\* a thread is inside a save on a cache, holding the mutex of its store,
\* while the other thread waits at that mutex for its own call on the cache
C27_Witness ==
    \E t, u \in Threads :
        /\ t # u
        /\ pc[t] = "locked"
        /\ storeLock[handle[t].store] = t
        /\ AtStoreLock(u)
        /\ handle[u].store = handle[t].store
        /\ regLock = NoThread

====
